---- MODULE Spec2Model ----
(***************************************************************************)
(* A model of the poker agent of src/goat.py (class GTOPlayer, with its    *)
(* helpers Card and HandEvaluator) on top of the lifecycle interface of    *)
(* src/bot.py (class Bot).                                                 *)
(*                                                                         *)
(* Strings of the program are sequences of one-character strings, so that  *)
(* slicing, indexing, split, startswith and endswith are computed as the   *)
(* code computes them.  A card is a record [rank, suit].                   *)
(***************************************************************************)
EXTENDS Integers, Sequences, FiniteSets, TLC

VARIABLES
    id,                     \* Bot.id
    hand,                   \* GTOPlayer.hand: a list of cards
    is_preflop_aggressor,   \* GTOPlayer.is_preflop_aggressor
    all_player_ids,         \* GTOPlayer.all_player_ids
    call,                   \* the operation that ran last
    rs,                     \* the round state handed to the last call
    arg,                    \* the range list of the last call, when it was _is_in_range
    ret,                    \* what the last call returned (or that it raised)
    raisedSinceRoundStart,  \* history: a pre-flop get_action returned RAISE since the last on_round_start
    prevAggressor           \* history: is_preflop_aggressor before the last call

vars == <<id, hand, is_preflop_aggressor, all_player_ids, call, rs, arg, ret,
          raisedSinceRoundStart, prevAggressor>>

\* None, the value of Bot.id before set_id: no player id of the model is negative
None == -1

-----------------------------------------------------------------------------
(* enum HandRank *)
HIGH_CARD == 0
PAIR == 1
TWO_PAIR == 2
THREE_OF_A_KIND == 3
STRAIGHT == 4
FLUSH == 5
FULL_HOUSE == 6
FOUR_OF_A_KIND == 7
STRAIGHT_FLUSH == 8

(* enum HandCategory: the value of each member, doubled (WEAK_DRAW is 0.5) *)
HandCategoryValue2(c) ==
    CASE c = "MONSTER" -> 10
      [] c = "STRONG_MADE" -> 8
      [] c = "MEDIUM_MADE" -> 6
      [] c = "WEAK_MADE" -> 4
      [] c = "STRONG_DRAW" -> 2
      [] c = "WEAK_DRAW" -> 1
      [] c = "AIR" -> 0

-----------------------------------------------------------------------------
(* Generic list helpers, as Python computes them *)

Max2(a, b) == IF a >= b THEN a ELSE b
Min2(a, b) == IF a <= b THEN a ELSE b

Range(s) == {s[i] : i \in 1..Len(s)}

\* Python's order on the keys used here, the pairs <<a, b>> of integers
KeyGreater(k, l) == k[1] > l[1] \/ (k[1] = l[1] /\ k[2] > l[2])

\* a stable descending sort of <<key, value>> pairs by key: equal keys keep their order
RECURSIVE InsertDesc(_, _)
InsertDesc(x, s) ==
    IF s = <<>> THEN <<x>>
    ELSE IF KeyGreater(x[1], Head(s)[1]) THEN <<x>> \o s
    ELSE <<Head(s)>> \o InsertDesc(x, Tail(s))

RECURSIVE SortPairsDesc(_)
SortPairsDesc(s) ==
    IF s = <<>> THEN <<>>
    ELSE LET n == Len(s)
         IN InsertDesc(s[n], SortPairsDesc(SubSeq(s, 1, n - 1)))

Values(pairs) == [i \in 1..Len(pairs) |-> pairs[i][2]]

\* sorted(ints, reverse=True)
SortedDesc(s) == Values(SortPairsDesc([i \in 1..Len(s) |-> <<<<s[i], 0>>, s[i]>>]))

\* sorted(cards, key=lambda c: c.rank, reverse=True)
SortedByRankDesc(cards) ==
    Values(SortPairsDesc([i \in 1..Len(cards) |-> <<<<cards[i].rank, 0>>, cards[i]>>]))

\* sorted(list(set)) of integers, ascending
RECURSIVE SortedAsc(_)
SortedAsc(S) ==
    IF S = {} THEN <<>>
    ELSE LET m == CHOOSE x \in S : \A y \in S : x <= y
         IN <<m>> \o SortedAsc(S \ {m})

\* Counter(s)[x]
Count(s, x) == Cardinality({i \in 1..Len(s) : s[i] = x})

\* Counter(s).most_common(1)[0][1], for a non-empty s
MostCommonCount(s) ==
    CHOOSE n \in 1..Len(s) :
        /\ \E x \in Range(s) : Count(s, x) = n
        /\ \A x \in Range(s) : Count(s, x) <= n

\* itertools.combinations(s, k), in the order it yields them
RECURSIVE Combinations(_, _)
Combinations(s, k) ==
    IF k = 0 THEN <<<<>>>>
    ELSE IF Len(s) < k THEN <<>>
    ELSE LET withHead == Combinations(Tail(s), k - 1)
         IN [i \in 1..Len(withHead) |-> <<Head(s)>> \o withHead[i]]
            \o Combinations(Tail(s), k)

-----------------------------------------------------------------------------
(* class Card *)

Digits == <<"0", "1", "2", "3", "4", "5", "6", "7", "8", "9">>

DigitValue(ch) == (CHOOSE i \in 1..10 : Digits[i] = ch) - 1

IsDigits(s) == s # <<>> /\ \A i \in 1..Len(s) : s[i] \in Range(Digits)

RECURSIVE DigitsValue(_)
DigitsValue(s) ==
    IF s = <<>> THEN 0
    ELSE 10 * DigitsValue(SubSeq(s, 1, Len(s) - 1)) + DigitValue(s[Len(s)])

\* int(text) succeeds: text is digits with an optional sign (ValueError otherwise)
PyIntOk(s) ==
    \/ IsDigits(s)
    \/ Len(s) >= 2 /\ s[1] \in {"-", "+"} /\ IsDigits(Tail(s))

\* int(text), when it succeeds
PyInt(s) ==
    IF IsDigits(s) THEN DigitsValue(s)
    ELSE IF s[1] = "-" THEN 0 - DigitsValue(Tail(s))
    ELSE DigitsValue(Tail(s))

\* rank_map of Card.__init__
RankMap(ch) ==
    CASE ch = "T" -> 10 [] ch = "J" -> 11 [] ch = "Q" -> 12
      [] ch = "K" -> 13 [] ch = "A" -> 14

RankMapKeys == {"T", "J", "Q", "K", "A"}

\* Card.__init__(card_str)
Card(card_str) ==
    IF card_str = <<>> THEN [rank |-> 0, suit |-> ""]
    ELSE LET rank_str == SubSeq(card_str, 1, Len(card_str) - 1)
             suit == card_str[Len(card_str)]
             rank == IF Len(rank_str) = 1 /\ rank_str[1] \in RankMapKeys
                     THEN RankMap(rank_str[1])
                     ELSE IF PyIntOk(rank_str) THEN PyInt(rank_str)
                     ELSE 0
         IN [rank |-> rank, suit |-> suit]

\* str(rank) for the ranks a card can hold here
RECURSIVE NatStr(_)
NatStr(n) == IF n < 10 THEN <<Digits[n + 1]>> ELSE NatStr(n \div 10) \o <<Digits[(n % 10) + 1]>>

IntStr(n) == IF n < 0 THEN <<"-">> \o NatStr(0 - n) ELSE NatStr(n)

\* rank_map_rev.get(rank, str(rank))
RankStr(rank) ==
    CASE rank = 10 -> <<"T">> [] rank = 11 -> <<"J">> [] rank = 12 -> <<"Q">>
      [] rank = 13 -> <<"K">> [] rank = 14 -> <<"A">>
      [] OTHER -> IntStr(rank)

\* Card.__repr__
CardRepr(c) == IF c.rank = 0 THEN <<>> ELSE RankStr(c.rank) \o <<c.suit>>

-----------------------------------------------------------------------------
(* class HandEvaluator *)

RanksOf(cards) == [i \in 1..Len(cards) |-> cards[i].rank]
SuitsOf(cards) == [i \in 1..Len(cards) |-> cards[i].suit]

\* rank_counts.values(), sorted descending
CountsDesc(ranks) ==
    LET keys == SortedAsc(Range(ranks))
    IN SortedDesc([i \in 1..Len(keys) |-> Count(ranks, keys[i])])

\* sorted(rank_counts.keys(), key=lambda r: (rank_counts[r], r), reverse=True)
MainRanks(ranks) ==
    LET keys == SortedAsc(Range(ranks))
    IN Values(SortPairsDesc([i \in 1..Len(keys) |->
                                <<<<Count(ranks, keys[i]), keys[i]>>, keys[i]>>]))

\* HandEvaluator._evaluate_preliminary
EvaluatePreliminary(cards) ==
    LET ranks == RanksOf(cards)
        values == {Count(ranks, r) : r \in Range(ranks)}
        kickers == SortedDesc(ranks)
    IN IF 4 \in values THEN <<FOUR_OF_A_KIND, kickers>>
       ELSE IF 3 \in values THEN <<THREE_OF_A_KIND, kickers>>
       ELSE IF \E r \in Range(ranks) : Count(ranks, r) = 2 THEN <<PAIR, kickers>>
       ELSE <<HIGH_CARD, kickers>>

\* the straight test of _evaluate_five_card_hand on unique_ranks (no wheel)
HasRun(unique_ranks) ==
    /\ Len(unique_ranks) >= 5
    /\ \E i \in 1..(Len(unique_ranks) - 4) : unique_ranks[i] - unique_ranks[i + 4] = -4

WheelRanks == {14, 2, 3, 4, 5}

\* _evaluate_five_card_hand without line 104: the wheel keeps its ace as rank 14
EvaluateFiveCardHandAceHigh(h) ==
    LET ranks == SortedDesc(RanksOf(h))
        suits == SuitsOf(h)
        is_flush == Cardinality(Range(suits)) = 1
        unique_ranks == SortedAsc(Range(ranks))
        is_straight == Range(ranks) = {14, 2, 3, 4, 5} \/ HasRun(unique_ranks)
        counts == CountsDesc(ranks)
        main_ranks == MainRanks(ranks)
    IN IF is_straight /\ is_flush THEN <<STRAIGHT_FLUSH, ranks>>
       ELSE IF counts[1] = 4 THEN <<FOUR_OF_A_KIND, main_ranks>>
       ELSE IF counts = <<3, 2>> THEN <<FULL_HOUSE, main_ranks>>
       ELSE IF is_flush THEN <<FLUSH, ranks>>
       ELSE IF is_straight THEN <<STRAIGHT, ranks>>
       ELSE IF counts[1] = 3 THEN <<THREE_OF_A_KIND, main_ranks>>
       ELSE IF counts = <<2, 2, 1>> THEN <<TWO_PAIR, main_ranks>>
       ELSE IF counts[1] = 2 THEN <<PAIR, main_ranks>>
       ELSE <<HIGH_CARD, ranks>>

\* HandEvaluator._evaluate_five_card_hand
EvaluateFiveCardHand(h) ==
    LET ranks0 == SortedDesc(RanksOf(h))
        suits == SuitsOf(h)
        is_flush == Cardinality(Range(suits)) = 1
        unique_ranks == SortedAsc(Range(ranks0))
        wheel == Range(ranks0) = WheelRanks
        is_straight == wheel \/ HasRun(unique_ranks)
        ranks == IF wheel THEN <<5, 4, 3, 2, 1>> ELSE ranks0
        counts == CountsDesc(ranks0)
        main_ranks == MainRanks(ranks0)
    IN IF is_straight /\ is_flush THEN <<STRAIGHT_FLUSH, ranks>>
       ELSE IF counts[1] = 4 THEN <<FOUR_OF_A_KIND, main_ranks>>
       ELSE IF counts = <<3, 2>> THEN <<FULL_HOUSE, main_ranks>>
       ELSE IF is_flush THEN <<FLUSH, ranks>>
       ELSE IF is_straight THEN <<STRAIGHT, ranks>>
       ELSE IF counts[1] = 3 THEN <<THREE_OF_A_KIND, main_ranks>>
       ELSE IF counts = <<2, 2, 1>> THEN <<TWO_PAIR, main_ranks>>
       ELSE IF counts[1] = 2 THEN <<PAIR, main_ranks>>
       ELSE <<HIGH_CARD, ranks>>

\* the inner loop of evaluate (lines 74-79): do the kickers replace best_kickers?
RECURSIVE KickersBeat(_, _, _)
KickersBeat(kickers, best_kickers, i) ==
    IF i > Len(kickers) THEN FALSE
    ELSE IF kickers[i] > best_kickers[i] THEN TRUE
    ELSE IF kickers[i] < best_kickers[i] THEN FALSE
    ELSE KickersBeat(kickers, best_kickers, i + 1)

\* the loop body of evaluate without its tie-break (lines 73-79): only a higher
\* HandRank replaces the best hand
BestStepNoTieBreak(best, combo) ==
    LET scored == EvaluateFiveCardHand(combo)
    IN IF scored[1] > best[1] THEN scored ELSE best

\* one pass of the loop body of evaluate (lines 68-79)
BestStep(best, combo) ==
    LET scored == EvaluateFiveCardHand(combo)
    IN IF scored[1] > best[1] THEN scored
       ELSE IF scored[1] = best[1] /\ KickersBeat(scored[2], best[2], 1)
            THEN <<best[1], scored[2]>>
       ELSE best

RECURSIVE BestOver(_, _, _)
BestOver(best, combos, i) ==
    IF i > Len(combos) THEN best
    ELSE BestOver(BestStep(best, combos[i]), combos, i + 1)

\* HandEvaluator.evaluate
Evaluate(h, community) ==
    LET all_cards == SortedByRankDesc(h \o community)
    IN IF Len(all_cards) < 5 THEN EvaluatePreliminary(all_cards)
       ELSE BestOver(<<HIGH_CARD, SubSeq(RanksOf(all_cards), 1, 5)>>,
                     Combinations(all_cards, 5), 1)

-----------------------------------------------------------------------------
(* class GTOPlayer *)

\* self.preflop_ranges, each token a sequence of characters
T2(a, b) == <<a, b>>
T3(a, b, c) == <<a, b, c>>
T4(a, b, c, d) == <<a, b, c, d>>

PreflopRanges(position, kind) ==
    CASE position = "EARLY" /\ kind = "RFI" ->
           <<T3("7","7","+"), T4("A","T","s","+"), T4("K","J","s","+"), T3("Q","J","s"),
             T3("J","T","s"), T3("T","9","s"), T4("A","J","o","+"), T3("K","Q","o")>>
      [] position = "EARLY" /\ kind = "3bet" ->
           <<T3("T","T","+"), T4("A","Q","s","+"), T3("A","K","o")>>
      [] position = "EARLY" /\ kind = "call" ->
           <<<<"2","2","-","9","9">>, T3("A","J","s"), T3("A","T","s"), T3("K","Q","s")>>
      [] position = "MIDDLE" /\ kind = "RFI" ->
           <<T3("5","5","+"), T4("A","8","s","+"), T4("K","9","s","+"), T4("Q","T","s","+"),
             T3("J","T","s"), T3("T","9","s"), T4("A","9","o","+"), T4("K","T","o","+"),
             T3("Q","J","o")>>
      [] position = "MIDDLE" /\ kind = "3bet" ->
           <<T3("9","9","+"), T4("A","T","s","+"), T4("K","J","s","+"), T4("A","Q","o","+")>>
      [] position = "MIDDLE" /\ kind = "call" ->
           <<<<"2","2","-","8","8">>, T3("A","9","s"), T3("K","T","s"), T3("Q","T","s")>>
      [] position = "LATE" /\ kind = "RFI" ->
           <<T3("2","2","+"), T4("A","2","s","+"), T4("K","7","s","+"), T4("Q","8","s","+"),
             T4("J","8","s","+"), T4("T","8","s","+"), T4("A","2","o","+"), T4("K","9","o","+"),
             T4("Q","T","o","+"), T3("J","T","o")>>
      [] position = "LATE" /\ kind = "3bet" ->
           <<T3("8","8","+"), T4("A","8","s","+"), T4("K","9","s","+"), T4("A","Q","o","+"),
             T3("K","Q","o")>>
      [] position = "LATE" /\ kind = "call" ->
           <<<<"2","2","-","7","7">>, <<"A","2","s","-","A","7","s">>, T3("J","T","s"),
             T3("Q","T","s")>>
      [] position = "BLINDS" /\ kind = "RFI" ->
           <<T3("3","3","+"), T4("A","2","s","+"), T4("K","8","s","+"), T4("Q","9","s","+"),
             T4("J","9","s","+"), T4("A","7","o","+"), T4("K","T","o","+")>>
      [] position = "BLINDS" /\ kind = "3bet" ->
           <<T3("9","9","+"), T4("A","J","s","+"), T4("A","Q","o","+")>>
      [] position = "BLINDS" /\ kind = "call" ->
           <<<<"2","2","-","8","8">>, <<"A","2","s","-","A","T","s">>, T4("K","J","s","+"),
             T4("Q","T","s","+")>>

\* text.split(" ")
RECURSIVE Split(_)
Split(text) ==
    IF \A i \in 1..Len(text) : text[i] # " " THEN <<text>>
    ELSE LET k == CHOOSE i \in 1..Len(text) :
                      text[i] = " " /\ \A j \in 1..(i - 1) : text[j] # " "
         IN <<SubSeq(text, 1, k - 1)>> \o Split(SubSeq(text, k + 1, Len(text)))

\* [Card(c) for c in texts]
Cards(texts) == [i \in 1..Len(texts) |-> Card(texts[i])]

\* x in s (list.index(x) raises ValueError otherwise)
Contains(s, x) == \E i \in 1..Len(s) : s[i] = x

\* list.index(x), when x is in s
Index(s, x) ==
    (CHOOSE i \in 1..Len(s) : s[i] = x /\ \A j \in 1..(i - 1) : s[j] # x) - 1

\* _get_position with the seats of line 242 swapped: the distance from the agent to
\* the big blind instead of from the big blind to the agent
GetPositionSwapped(players, me, big_blind_player_id) ==
    LET player_count == Len(players)
        my_index == Index(players, me)
        bb_index == Index(players, big_blind_player_id)
        relative_pos == (bb_index - my_index + player_count) % player_count
    IN IF player_count <= 3 THEN "LATE"
       ELSE IF ~Contains(players, me) \/ ~Contains(players, big_blind_player_id) THEN "LATE"
       ELSE IF relative_pos \in {player_count - 1, player_count - 2} THEN "BLINDS"
       ELSE IF relative_pos = player_count - 3 THEN "LATE"
       ELSE IF relative_pos = player_count - 4 THEN "LATE"
       ELSE IF relative_pos = player_count - 5 THEN "MIDDLE"
       ELSE "EARLY"

\* GTOPlayer._get_position
GetPosition(players, me, big_blind_player_id) ==
    LET player_count == Len(players)
        my_index == Index(players, me)
        bb_index == Index(players, big_blind_player_id)
        relative_pos == (my_index - bb_index + player_count) % player_count
    IN IF player_count <= 3 THEN "LATE"
       ELSE IF ~Contains(players, me) \/ ~Contains(players, big_blind_player_id) THEN "LATE"
       ELSE IF relative_pos \in {player_count - 1, player_count - 2} THEN "BLINDS"
       ELSE IF relative_pos = player_count - 3 THEN "LATE"
       ELSE IF relative_pos = player_count - 4 THEN "LATE"
       ELSE IF relative_pos = player_count - 5 THEN "MIDDLE"
       ELSE "EARLY"

StartsWith(text, prefix) ==
    Len(text) >= Len(prefix) /\ SubSeq(text, 1, Len(prefix)) = prefix

EndsWith(text, suffix) ==
    Len(text) >= Len(suffix)
    /\ SubSeq(text, Len(text) - Len(suffix) + 1, Len(text)) = suffix

\* GTOPlayer._get_hand_string, for a hand of two cards
GetHandString(h) ==
    LET sorted == SortedByRankDesc(h)
        c1 == sorted[1]
        c2 == sorted[2]
        s == IF c1.suit = c2.suit THEN "s" ELSE "o"
        r1 == RankStr(c1.rank)
        r2 == RankStr(c2.rank)
    IN IF r1 = r2 THEN r1 \o r2 ELSE r1 \o r2 \o <<s>>

\* _is_in_range with a branch for spans 'NN-MM': a pocket pair from NN to MM matches
TokenMatchesSpans(h, r) ==
    LET hand_str == GetHandString(h)
        c1 == h[1]
        c2 == h[2]
        base_rank == Card(<<r[2], "s">>).rank
    IN IF Len(r) = 2 THEN StartsWith(hand_str, r)
       ELSE IF Len(r) = 5 /\ r[3] = "-" THEN
            /\ c1.rank = c2.rank
            /\ c1.rank >= Card(<<r[1], "s">>).rank
            /\ c1.rank <= Card(<<r[4], "s">>).rank
       ELSE IF EndsWith(r, <<"+">>) THEN
            IF Len(r) = 3 /\ r[1] = r[2]
            THEN c1.rank = c2.rank /\ c1.rank >= base_rank
            ELSE IF EndsWith(r, <<"s", "+">>) /\ EndsWith(hand_str, <<"s">>)
            THEN hand_str[1] = r[1] /\ c2.rank >= base_rank
            ELSE IF EndsWith(r, <<"o", "+">>) /\ EndsWith(hand_str, <<"o">>)
            THEN hand_str[1] = r[1] /\ c2.rank >= base_rank
            ELSE FALSE
       ELSE r = hand_str

\* one pass of the loop body of _is_in_range (lines 256-268): does token r return True?
TokenMatches(h, r) ==
    LET hand_str == GetHandString(h)
        c1 == h[1]
        c2 == h[2]
        base_rank == Card(<<r[2], "s">>).rank
    IN IF Len(r) = 2 THEN StartsWith(hand_str, r)
       ELSE IF EndsWith(r, <<"+">>) THEN
            IF Len(r) = 3 /\ r[1] = r[2]
            THEN c1.rank = c2.rank /\ c1.rank >= base_rank
            ELSE IF EndsWith(r, <<"s", "+">>) /\ EndsWith(hand_str, <<"s">>)
            THEN hand_str[1] = r[1] /\ c2.rank >= base_rank
            ELSE IF EndsWith(r, <<"o", "+">>) /\ EndsWith(hand_str, <<"o">>)
            THEN hand_str[1] = r[1] /\ c2.rank >= base_rank
            ELSE FALSE
       ELSE r = hand_str

\* GTOPlayer._is_in_range, for a hand of two cards
IsInRange(h, range_list) == \E i \in 1..Len(range_list) : TokenMatches(h, range_list[i])

\* int(x) of the float x = num / den: truncation toward zero
PyIntOfRatio(num, den) ==
    IF num >= 0 THEN num \div den ELSE 0 - ((0 - num) \div den)

\* GTOPlayer._make_bet
MakeBet(round_state, amount) ==
    LET min_bet == round_state.min_raise
        max_bet == round_state.max_raise
    IN [action |-> "RAISE", amount |-> Max2(min_bet, Min2(amount, max_bet))]

\* GTOPlayer._make_raise
MakeRaise(round_state, amount) ==
    LET min_raise == round_state.min_raise
        max_raise == round_state.max_raise
    IN [action |-> "RAISE", amount |-> Max2(min_raise, Min2(amount, max_raise))]

\* the call ends in an exception of this type instead of a return
Raised(error) == [action |-> error, amount |-> 0]

\* any(action == "Raise" for action in round_state.player_actions.values())
HasRaise(round_state) ==
    \E k \in DOMAIN round_state.player_actions : round_state.player_actions[k] = "Raise"

\* GTOPlayer._get_preflop_action: what it returns
\* (c1, c2 = ... of _get_hand_string raises ValueError unless the hand has two cards)
GetPreflopAction(h, players, me, round_state, amount_to_call) ==
    LET position == GetPosition(players, me, round_state.big_blind_player_id)
    IN IF Len(h) # 2 THEN Raised("ValueError")
       ELSE IF HasRaise(round_state) THEN
            IF IsInRange(h, PreflopRanges(position, "3bet"))
            THEN MakeRaise(round_state, round_state.current_bet * 3)
            ELSE IF IsInRange(h, PreflopRanges(position, "call"))
            THEN [action |-> "CALL", amount |-> amount_to_call]
            ELSE [action |-> "FOLD", amount |-> 0]
       ELSE IF IsInRange(h, PreflopRanges(position, "RFI"))
            THEN MakeRaise(round_state, PyIntOfRatio(round_state.min_raise * 25, 10))
            ELSE IF amount_to_call = 0 THEN [action |-> "CHECK", amount |-> 0]
            ELSE [action |-> "FOLD", amount |-> 0]

\* GTOPlayer._get_preflop_action: does it set self.is_preflop_aggressor = True?
PreflopSetsAggressor(h, players, me, round_state) ==
    LET position == GetPosition(players, me, round_state.big_blind_player_id)
    IN /\ Len(h) = 2
       /\ IF HasRaise(round_state)
          THEN IsInRange(h, PreflopRanges(position, "3bet"))
          ELSE IsInRange(h, PreflopRanges(position, "RFI"))

\* the first rank that Counter(ranks) counts twice (line 297), when there is one
HasPairRank(ranks) == \E i \in 1..Len(ranks) : Count(ranks, ranks[i]) = 2

FirstPairRank(ranks) ==
    ranks[CHOOSE i \in 1..Len(ranks) :
              Count(ranks, ranks[i]) = 2
              /\ \A j \in 1..(i - 1) : Count(ranks, ranks[j]) # 2]

\* max([c.rank for c in community], default=0)
MaxRankOrZero(community) ==
    IF community = <<>> THEN 0
    ELSE CHOOSE m \in Range(RanksOf(community)) : \A r \in Range(RanksOf(community)) : m >= r

\* the straight-draw test of _categorize_hand (lines 291-294)
SpanAtMost4(unique_ranks) ==
    /\ Len(unique_ranks) >= 4
    /\ \E i \in 1..(Len(unique_ranks) - 3) : unique_ranks[i + 3] - unique_ranks[i] <= 4

\* the pair refinement of _categorize_hand (lines 296-301)
CategorizePair(h, community) ==
    LET combined == h \o community
        ranks == RanksOf(combined)
        pair_rank == FirstPairRank(ranks)
    IN IF ~HasPairRank(ranks) THEN "IndexError"
       ELSE IF Len(h) < 2 THEN "IndexError"
       ELSE IF pair_rank \in {h[1].rank, h[2].rank} /\ pair_rank >= MaxRankOrZero(community)
       THEN "STRONG_MADE"
       ELSE IF pair_rank \in {h[1].rank, h[2].rank} THEN "MEDIUM_MADE"
       ELSE "WEAK_MADE"

\* the draw heuristic of _categorize_hand (lines 288-294) applies and finds a draw
DrawDetected(combined) ==
    /\ Len(combined) < 5
    /\ \/ MostCommonCount(SuitsOf(combined)) = 4
       \/ SpanAtMost4(SortedAsc(Range(RanksOf(combined))))

\* GTOPlayer._categorize_hand: a HandCategory, or the exception it ends in
CategorizeHand(rank, h, community) ==
    LET combined == h \o community
    IN IF rank >= FULL_HOUSE THEN "MONSTER"
       ELSE IF rank = THREE_OF_A_KIND /\ Len(h) < 2 THEN "IndexError"
       ELSE IF rank = THREE_OF_A_KIND /\ h[1].rank = h[2].rank THEN "MONSTER"
       ELSE IF rank >= TWO_PAIR THEN "STRONG_MADE"
       ELSE IF combined = <<>> THEN "IndexError"
       ELSE IF DrawDetected(combined) THEN "STRONG_DRAW"
       ELSE IF rank = PAIR THEN CategorizePair(h, community)
       ELSE "AIR"

\* outs of GTOPlayer._estimate_draw_equity (lines 306-316), for a non-empty combined
DrawOuts(combined) ==
    LET flush_outs == IF MostCommonCount(SuitsOf(combined)) = 4 THEN 9 ELSE 0
        u == SortedAsc(Range(RanksOf(combined)))
        windows == 1..(Len(u) - 3)
        is_oesd == \E i \in windows : u[i + 3] - u[i] = 3
        is_gutshot == \E i \in windows : u[i + 3] - u[i] = 4
    IN IF Len(u) >= 4 /\ is_oesd THEN Max2(flush_outs, 8)
       ELSE IF Len(u) >= 4 /\ is_gutshot THEN Max2(flush_outs, 4)
       ELSE flush_outs

\* GTOPlayer._estimate_draw_equity, in hundredths
EstimateDrawEquity100(h, community_cards) ==
    DrawOuts(h \o community_cards) * (IF Len(community_cards) = 3 THEN 4 ELSE 2)

\* str(self.id)
IdStr(i) == IF i = None THEN <<"N", "o", "n", "e">> ELSE IntStr(i)

\* round_state.current_bet - round_state.player_bets.get(str(self.id), 0)
AmountToCall(me, round_state) ==
    round_state.current_bet
    - (IF IdStr(me) \in DOMAIN round_state.player_bets
       THEN round_state.player_bets[IdStr(me)] ELSE 0)

\* equity > pot_odds (lines 191, 199), both exact fractions
EquityBeatsPotOdds(equity100, amount_to_call, pot_size) ==
    IF pot_size + amount_to_call > 0
    THEN equity100 * (pot_size + amount_to_call) > 100 * amount_to_call
    ELSE equity100 > 0

\* the post-flop part of get_action (lines 172-205); bluff is random.random() < 0.4
GetPostflopAction(h, aggressor, me, round_state, bluff) ==
    LET amount_to_call == AmountToCall(me, round_state)
        community_cards == Cards(round_state.community_cards)
        hand_rank == Evaluate(h, community_cards)[1]
        hand_category == CategorizeHand(hand_rank, h, community_cards)
        value2 == HandCategoryValue2(hand_category)
        pot_size == round_state.pot
    IN IF hand_category = "IndexError" THEN Raised("IndexError")
       ELSE IF amount_to_call = 0 THEN
            IF aggressor THEN
                 IF value2 >= HandCategoryValue2("STRONG_MADE")
                    \/ value2 = HandCategoryValue2("STRONG_DRAW")
                 THEN MakeBet(round_state, PyIntOfRatio(pot_size * 66, 100))
                 ELSE IF value2 = HandCategoryValue2("AIR") /\ bluff
                 THEN MakeBet(round_state, PyIntOfRatio(pot_size * 4, 10))
                 ELSE [action |-> "CHECK", amount |-> 0]
            ELSE IF value2 >= HandCategoryValue2("MEDIUM_MADE")
                 THEN MakeBet(round_state, PyIntOfRatio(pot_size * 5, 10))
                 ELSE [action |-> "CHECK", amount |-> 0]
       ELSE IF value2 = HandCategoryValue2("MONSTER")
            THEN MakeRaise(round_state, PyIntOfRatio(pot_size * 3 + amount_to_call * 2, 2))
       ELSE IF value2 >= HandCategoryValue2("STRONG_MADE")
            THEN [action |-> "CALL", amount |-> amount_to_call]
       ELSE IF value2 = HandCategoryValue2("STRONG_DRAW")
               /\ EquityBeatsPotOdds(EstimateDrawEquity100(h, community_cards),
                                     amount_to_call, pot_size)
            THEN [action |-> "CALL", amount |-> amount_to_call]
       ELSE IF value2 >= HandCategoryValue2("WEAK_MADE") /\ 2 * amount_to_call <= pot_size
            THEN [action |-> "CALL", amount |-> amount_to_call]
       ELSE [action |-> "FOLD", amount |-> 0]

-----------------------------------------------------------------------------
(* Inputs of the host, drawn from small sets *)

MaxChips == 6        \* min_raise and max_raise range over 1..MaxChips
MaxSeats == 6        \* table sizes 1..MaxSeats
DeckSize == 9        \* the evaluator is run on the first DeckSize cards of DeckOrder

NoReturn == [action |-> "None", amount |-> 0]

NoBets == [k \in {} |-> 0]

NoRoundState ==
    [round |-> "", current_bet |-> 0, player_bets |-> NoBets, pot |-> 0,
     min_raise |-> 0, max_raise |-> 0, community_cards |-> <<>>,
     player_actions |-> NoBets, big_blind_player_id |-> 0]

\* hole-card texts handed to on_start: "", "Xx Yy", "Ah Kh", "7h 6h", "7h 7c", "Ah Kh Qh"
HoleTexts ==
    { <<>>,
      <<"X", "x", " ", "Y", "y">>,
      <<"A", "h", " ", "K", "h">>,
      <<"7", "h", " ", "6", "h">>,
      <<"7", "h", " ", "7", "c">>,
      <<"A", "h", " ", "K", "h", " ", "Q", "h">> }

\* community-card lists of a round state: none and three flops
Boards ==
    { <<>>,
      << <<"5", "h">>, <<"2", "h">>, <<"9", "c">> >>,
      << <<"A", "c">>, <<"K", "d">>, <<"2", "s">> >>,
      << <<"7", "d">>, <<"7", "s">>, <<"2", "c">> >> }

\* seat orders handed to on_start
SeatOrders == { <<1, 2>>, <<1, 2, 3, 4, 5, 6>> }

\* min_raise below and above max_raise
MinRaises == {2, MaxChips}
MaxRaises == {MaxChips - 2}

\* the own-bet mapping: no entry, or an entry for player 1
BetMaps == { NoBets, [k \in {<<"1">>} |-> 2] }

ActionMaps == { [k \in {<<"2">>} |-> "Raise"], [k \in {<<"2">>} |-> "Call"] }

PreflopRoundStates ==
    [round : {"Preflop"}, current_bet : {2}, player_bets : BetMaps, pot : {3},
     min_raise : MinRaises, max_raise : MaxRaises, community_cards : {<<>>},
     player_actions : ActionMaps, big_blind_player_id : {2}]

PostflopRoundStates ==
    [round : {"Flop"}, current_bet : {2}, player_bets : BetMaps, pot : {0, 10},
     min_raise : MinRaises, max_raise : MaxRaises, community_cards : Boards,
     player_actions : {NoBets}, big_blind_player_id : {2}]

-----------------------------------------------------------------------------
(* The lifecycle: the state after construction and one action per operation *)

\* Bot.__init__ and GTOPlayer.__init__
Init ==
    /\ id = None
    /\ hand = <<>>
    /\ is_preflop_aggressor = FALSE
    /\ all_player_ids = <<>>
    /\ call = "init"
    /\ rs = NoRoundState
    /\ arg = <<>>
    /\ ret = NoReturn
    /\ raisedSinceRoundStart = FALSE
    /\ prevAggressor = FALSE

\* Bot.set_id
SetId ==
    /\ id' = 1
    /\ call' = "set_id"
    /\ rs' = NoRoundState
    /\ arg' = <<>>
    /\ ret' = NoReturn
    /\ prevAggressor' = is_preflop_aggressor
    /\ UNCHANGED <<hand, is_preflop_aggressor, all_player_ids, raisedSinceRoundStart>>

\* GTOPlayer.on_start
OnStart ==
    \E my_hand_str \in HoleTexts, all_players \in SeatOrders :
        /\ all_player_ids' = all_players
        /\ hand' = Cards(Split(my_hand_str))
        /\ call' = "on_start"
        /\ rs' = NoRoundState
        /\ arg' = <<>>
        /\ ret' = NoReturn
        /\ prevAggressor' = is_preflop_aggressor
        /\ UNCHANGED <<id, is_preflop_aggressor, raisedSinceRoundStart>>

\* on_round_start without line 163: the flag survives the start of a round
OnRoundStartKeepsFlag ==
    /\ call' = "on_round_start"
    /\ rs' = NoRoundState
    /\ arg' = <<>>
    /\ ret' = NoReturn
    /\ raisedSinceRoundStart' = FALSE
    /\ prevAggressor' = is_preflop_aggressor
    /\ UNCHANGED <<id, hand, is_preflop_aggressor, all_player_ids>>

\* GTOPlayer.on_round_start
OnRoundStart ==
    /\ is_preflop_aggressor' = FALSE
    /\ call' = "on_round_start"
    /\ rs' = NoRoundState
    /\ arg' = <<>>
    /\ ret' = NoReturn
    /\ raisedSinceRoundStart' = FALSE
    /\ prevAggressor' = is_preflop_aggressor
    /\ UNCHANGED <<id, hand, all_player_ids>>

\* GTOPlayer.get_action, round_state.round == 'Preflop', on a round state of the set
GetActionPreflopOn(round_states) ==
    \E round_state \in round_states :
        LET result == GetPreflopAction(hand, all_player_ids, id, round_state,
                                       AmountToCall(id, round_state))
            sets == PreflopSetsAggressor(hand, all_player_ids, id, round_state)
        IN /\ is_preflop_aggressor' = (IF sets THEN TRUE ELSE is_preflop_aggressor)
           /\ call' = "get_action"
           /\ rs' = round_state
           /\ arg' = <<>>
           /\ ret' = result
           /\ raisedSinceRoundStart' = (raisedSinceRoundStart \/ result.action = "RAISE")
           /\ prevAggressor' = is_preflop_aggressor
           /\ UNCHANGED <<id, hand, all_player_ids>>

GetActionPreflop == GetActionPreflopOn(PreflopRoundStates)

\* GTOPlayer.get_action, any later round (random.random() is drawn only on the
\* pre-flop-aggressor branch, line 181)
GetActionPostflop ==
    \E round_state \in PostflopRoundStates,
       bluff \in (IF is_preflop_aggressor THEN BOOLEAN ELSE {FALSE}) :
        /\ call' = "get_action"
        /\ rs' = round_state
        /\ arg' = <<>>
        /\ ret' = GetPostflopAction(hand, is_preflop_aggressor, id, round_state, bluff)
        /\ prevAggressor' = is_preflop_aggressor
        /\ UNCHANGED <<id, hand, is_preflop_aggressor, all_player_ids, raisedSinceRoundStart>>

\* GTOPlayer.on_end_round
OnEndRound ==
    /\ call' = "on_end_round"
    /\ rs' = NoRoundState
    /\ arg' = <<>>
    /\ ret' = NoReturn
    /\ prevAggressor' = is_preflop_aggressor
    /\ UNCHANGED <<id, hand, is_preflop_aggressor, all_player_ids, raisedSinceRoundStart>>

\* GTOPlayer.on_end_game
OnEndGame ==
    /\ call' = "on_end_game"
    /\ rs' = NoRoundState
    /\ arg' = <<>>
    /\ ret' = NoReturn
    /\ prevAggressor' = is_preflop_aggressor
    /\ UNCHANGED <<id, hand, is_preflop_aggressor, all_player_ids, raisedSinceRoundStart>>

Next ==
    \/ SetId
    \/ OnStart
    \/ OnRoundStart
    \/ GetActionPreflop
    \/ GetActionPostflop
    \/ OnEndRound
    \/ OnEndGame

Spec == Init /\ [][Next]_vars

-----------------------------------------------------------------------------
(* Properties of the lifecycle, checked under Spec *)

Actions == {"FOLD", "CHECK", "CALL", "RAISE"}

\* the last call was a post-flop get_action
PostflopCall == call = "get_action" /\ rs.round # "Preflop"

\* the last call was a pre-flop get_action
PreflopCall == call = "get_action" /\ rs.round = "Preflop"

\* C2: every RAISE a get_action call returns carries an amount a with
\* min_raise <= a <= max_raise, for every min_raise and max_raise of the round state.
C2_RaiseWithinLimits ==
    (call = "get_action" /\ ret.action = "RAISE")
        => (rs.min_raise <= ret.amount /\ ret.amount <= rs.max_raise)

\* C5: once on_start has run (the hand is then never the empty list: split yields at
\* least one text), every get_action call returns FOLD, CHECK, CALL or RAISE and does
\* not end in an exception.
C5_GetActionNeverRaises ==
    (call = "get_action" /\ hand # <<>>) => ret.action \in Actions

\* C6: is_preflop_aggressor is true exactly when a pre-flop get_action returned RAISE
\* since the last on_round_start (or construction); on_round_start leaves it false;
\* on_start, post-flop get_action, pre-flop get_action returning FOLD, CHECK or CALL,
\* on_end_round and on_end_game leave it as it was; so a post-flop get_action takes the
\* pre-flop-aggressor branch only if no on_round_start came after the pre-flop raise.
C6_AggressorFlag ==
    /\ is_preflop_aggressor = raisedSinceRoundStart
    /\ call = "on_round_start" => ~is_preflop_aggressor
    /\ call \in {"on_start", "on_end_round", "on_end_game"}
           => is_preflop_aggressor = prevAggressor
    /\ PostflopCall => is_preflop_aggressor = prevAggressor
    /\ (PreflopCall /\ ret.action \in {"FOLD", "CHECK", "CALL"})
           => is_preflop_aggressor = prevAggressor
    /\ (PostflopCall /\ ret.action \in Actions /\ AmountToCall(id, rs) = 0
           /\ is_preflop_aggressor)
           => raisedSinceRoundStart

\* C6, the case: after a pre-flop raise and no on_round_start, a post-flop get_action
\* with nothing owed takes the pre-flop-aggressor branch and bets.
C6_Witness ==
    /\ PostflopCall
    /\ is_preflop_aggressor
    /\ raisedSinceRoundStart
    /\ AmountToCall(id, rs) = 0
    /\ ret.action = "RAISE"

\* is the card a sentinel (rank 0)?
IsSentinel(c) == c.rank = 0

\* the cards of a list that are no sentinels, in their order
RECURSIVE WithoutSentinels(_)
WithoutSentinels(cards) ==
    IF cards = <<>> THEN <<>>
    ELSE IF IsSentinel(Head(cards)) THEN WithoutSentinels(Tail(cards))
    ELSE <<Head(cards)>> \o WithoutSentinels(Tail(cards))

\* C7: on a 3-card flop where four of the five combined cards share a suit and the
\* hand rank is HIGH_CARD (such as 7h 6h on 5h 2h 9c), _categorize_hand returns
\* STRONG_DRAW, not AIR.
C7_FlushDrawOnFlopIsStrongDraw ==
    LET community == Cards(rs.community_cards)
        rank == Evaluate(hand, community)[1]
    IN (/\ PostflopCall
        /\ Len(hand) = 2
        /\ Len(community) = 3
        /\ MostCommonCount(SuitsOf(hand \o community)) = 4
        /\ rank = HIGH_CARD)
           => CategorizeHand(rank, hand, community) = "STRONG_DRAW"

\* C9: sentinel cards contribute to no grouping: evaluate returns no HandRank higher
\* than the one it returns for the non-sentinel cards alone, and _categorize_hand
\* reports no made hand that the non-sentinel cards do not make.
C9_SentinelsContributeNothing ==
    LET community == Cards(rs.community_cards)
        rank == Evaluate(hand, community)[1]
        real_hand == WithoutSentinels(hand)
        real_community == WithoutSentinels(community)
        real_rank == Evaluate(real_hand, real_community)[1]
    IN (PostflopCall /\ Len(hand) = 2
        /\ \E i \in 1..Len(hand \o community) : IsSentinel((hand \o community)[i]))
           => /\ rank <= real_rank
              /\ real_rank = HIGH_CARD
                   => CategorizeHand(rank, hand, community)
                          \notin {"WEAK_MADE", "MEDIUM_MADE", "STRONG_MADE", "MONSTER"}

-----------------------------------------------------------------------------
(* The hand evaluator on its own: SpecEval draws two hole cards and three to five *)
(* community cards, all distinct, from a deck and applies evaluate to them        *)

\* the deck the evaluator is tried on: six hearts from the ace to the six, the other
\* aces, then deuces, a seven and further cards
DeckOrder ==
    << <<"A", "h">>, <<"2", "h">>, <<"3", "h">>, <<"4", "h">>, <<"5", "h">>,
       <<"6", "h">>, <<"A", "c">>, <<"2", "c">>, <<"A", "d">>, <<"A", "s">>,
       <<"7", "c">>, <<"2", "d">>, <<"K", "h">>, <<"6", "c">>, <<"3", "c">>,
       <<"K", "c">>, <<"Q", "h">>, <<"J", "d">>, <<"T", "s">>, <<"9", "c">> >>

DeckIndices == 1..Min2(DeckSize, Len(DeckOrder))

\* the texts of the deck's cards with these indices, in the order of the deck
RECURSIVE TextsAt(_)
TextsAt(indices) ==
    IF indices = {} THEN <<>>
    ELSE LET m == CHOOSE i \in indices : \A j \in indices : i <= j
         IN <<DeckOrder[m]>> \o TextsAt(indices \ {m})

CommunitySizes == {3, 4, 5}

InitEval ==
    /\ id = None
    /\ \E i \in DeckIndices, j \in DeckIndices :
           \E board \in SUBSET (DeckIndices \ {i, j}) :
               /\ i # j
               /\ Cardinality(board) \in CommunitySizes
               /\ hand = Cards(<<DeckOrder[i], DeckOrder[j]>>)
               /\ rs = [NoRoundState EXCEPT !.round = "Flop",
                                            !.community_cards = TextsAt(board)]
    /\ is_preflop_aggressor = FALSE
    /\ all_player_ids = <<>>
    /\ call = "init"
    /\ arg = <<>>
    /\ ret = NoReturn
    /\ raisedSinceRoundStart = FALSE
    /\ prevAggressor = FALSE

\* HandEvaluator.evaluate on the hand and the community cards (line 173)
EvaluateCall ==
    /\ call = "init"
    /\ call' = "evaluate"
    /\ ret' = Evaluate(hand, Cards(rs.community_cards))
    /\ UNCHANGED <<arg, id, hand, is_preflop_aggressor, all_player_ids, rs,
                   raisedSinceRoundStart, prevAggressor>>

NextEval == EvaluateCall

SpecEval == InitEval /\ [][NextEval]_vars

\* the cards evaluate was given
Combined == hand \o Cards(rs.community_cards)

\* the five-card hands of the combined cards, each in the order of Combined
FiveCardHands ==
    { [k \in 1..5 |-> Combined[SortedAsc(I)[k]]] :
          I \in {J \in SUBSET (1..Len(Combined)) : Cardinality(J) = 5} }

\* lexicographic order on kicker sequences, most significant first
RECURSIVE LexLess(_, _)
LexLess(a, b) ==
    IF a = <<>> THEN b # <<>>
    ELSE IF b = <<>> THEN FALSE
    ELSE IF Head(a) # Head(b) THEN Head(a) < Head(b)
    ELSE LexLess(Tail(a), Tail(b))

\* the order on results: by HandRank first, then by kickers
ScoreLess(x, y) == x[1] < y[1] \/ (x[1] = y[1] /\ LexLess(x[2], y[2]))

\* C1: on 5, 6 or 7 distinct valid cards evaluate returns the maximum of the five-card
\* scorer over all 5-card subsets: the result is the score of one of them and no
\* subset scores strictly higher.
C1_EvaluateIsMaximum ==
    call = "evaluate"
        => /\ \E h \in FiveCardHands : ret = EvaluateFiveCardHand(h)
           /\ \A h \in FiveCardHands : ~ScoreLess(ret, EvaluateFiveCardHand(h))

\* C1, the case: seven cards whose best hand is not the first in the loop's order and
\* wins on kickers alone (another subset has the same HandRank and lower kickers).
C1_Witness ==
    /\ call = "evaluate"
    /\ Len(Combined) = 7
    /\ \E h \in FiveCardHands :
           LET scored == EvaluateFiveCardHand(h)
           IN scored[1] = ret[1] /\ ScoreLess(scored, ret)
    /\ ret # EvaluateFiveCardHand(SubSeq(SortedByRankDesc(Combined), 1, 5))

IsWheel(h) == Range(RanksOf(h)) = {14, 2, 3, 4, 5}
IsSixHigh(h) == Range(RanksOf(h)) = {2, 3, 4, 5, 6}
SameSuit(h) == Cardinality(Range(SuitsOf(h))) = 1

\* C4 as claimed: the wheel scores STRAIGHT (STRAIGHT_FLUSH in one suit) with kickers
\* 5,4,3,2,1, below a six-high straight of the same HandRank; and whenever the cards
\* hold both a wheel and a six-high straight, evaluate returns the six-high straight.
C4_WheelOriginal ==
    call = "evaluate"
        => /\ \A w \in FiveCardHands : IsWheel(w) =>
                EvaluateFiveCardHand(w)
                    = <<IF SameSuit(w) THEN STRAIGHT_FLUSH ELSE STRAIGHT, <<5, 4, 3, 2, 1>> >>
           /\ ((\E w \in FiveCardHands : IsWheel(w)) /\ (\E s \in FiveCardHands : IsSixHigh(s)))
                 => \E s \in FiveCardHands : IsSixHigh(s) /\ ret = EvaluateFiveCardHand(s)

\* C4 as amended: the wheel scores STRAIGHT (STRAIGHT_FLUSH in one suit) with kickers
\* 5,4,3,2,1; five cards that are a wheel evaluate to just that; a wheel scores
\* strictly below every six-high straight of the same HandRank; and when the cards
\* hold a wheel and a six-high straight of the same HandRank, evaluate returns a
\* result that is not the wheel's and not below the six-high straight's.
C4_WheelBelowSixHigh ==
    call = "evaluate"
        => /\ \A w \in FiveCardHands : IsWheel(w) =>
                /\ EvaluateFiveCardHand(w)
                     = <<IF SameSuit(w) THEN STRAIGHT_FLUSH ELSE STRAIGHT, <<5, 4, 3, 2, 1>> >>
                /\ Len(Combined) = 5 => ret = EvaluateFiveCardHand(w)
           /\ \A w \in FiveCardHands, s \in FiveCardHands :
                (IsWheel(w) /\ IsSixHigh(s)
                 /\ EvaluateFiveCardHand(w)[1] = EvaluateFiveCardHand(s)[1])
                    => /\ ScoreLess(EvaluateFiveCardHand(w), EvaluateFiveCardHand(s))
                       /\ ret # EvaluateFiveCardHand(w)
                       /\ ~ScoreLess(ret, EvaluateFiveCardHand(s))

\* C4, the case: six or seven cards with a wheel and a six-high straight, both plain
\* straights, and evaluate returns the six-high one.
C4_Witness ==
    /\ call = "evaluate"
    /\ Len(Combined) >= 6
    /\ \E w \in FiveCardHands : IsWheel(w) /\ ~SameSuit(w)
    /\ \E s \in FiveCardHands : IsSixHigh(s) /\ ~SameSuit(s)
    /\ ret = <<STRAIGHT, <<6, 5, 4, 3, 2>> >>

-----------------------------------------------------------------------------
(* The range matcher and the pre-flop policy on their own: SpecRange draws the two   *)
(* hole cards, in either order, and applies _is_in_range to one token, or get_action *)
(* pre-flop at each position of a six-seat table                                     *)

RankChars == {"2", "3", "4", "5", "6", "7", "8", "9", "T", "J", "Q", "K", "A"}
RangeSuits == {"h", "d", "c", "s"}

RangeDeck == {<<r, s>> : r \in RankChars, s \in RangeSuits}

\* the tokens _is_in_range is tried on, one at a time
RangeTokens ==
    { T3("9","9","+"), T3("2","2","+"), T4("A","T","s","+"), T4("K","J","s","+"),
      T4("A","J","o","+"), T2("7","7"), T3("Q","J","s"), T3("K","Q","o"),
      <<"2","2","-","9","9">>, <<"2","2","-","8","8">>, <<"2","2","-","7","7">>,
      <<"A","2","s","-","A","7","s">>, <<"A","2","s","-","A","T","s">> }

\* the agent is player 1 in seat 0 of six; the big blind 1, 6, 4 or 2 puts the agent
\* in EARLY, MIDDLE, LATE or BLINDS
RangeRoundStates ==
    [round : {"Preflop"}, current_bet : {2}, player_bets : {NoBets}, pot : {3},
     min_raise : {2}, max_raise : {MaxChips}, community_cards : {<<>>},
     player_actions : ActionMaps, big_blind_player_id : {1, 6, 4, 2}]

InitRange ==
    /\ id = 1
    /\ \E t1 \in RangeDeck, t2 \in RangeDeck :
           /\ t1 # t2
           /\ hand = Cards(<<t1, t2>>)
    /\ is_preflop_aggressor = FALSE
    /\ all_player_ids = <<1, 2, 3, 4, 5, 6>>
    /\ call = "init"
    /\ rs = NoRoundState
    /\ arg = <<>>
    /\ ret = NoReturn
    /\ raisedSinceRoundStart = FALSE
    /\ prevAggressor = FALSE

\* GTOPlayer._is_in_range on a list of one token
IsInRangeCall ==
    \E r \in RangeTokens :
        /\ call = "init"
        /\ call' = "_is_in_range"
        /\ arg' = <<r>>
        /\ ret' = IsInRange(hand, <<r>>)
        /\ UNCHANGED <<id, hand, is_preflop_aggressor, all_player_ids, rs,
                       raisedSinceRoundStart, prevAggressor>>

\* GTOPlayer.get_action pre-flop, at each position
GetActionPreflopAnySeat ==
    /\ call = "init"
    /\ GetActionPreflopOn(RangeRoundStates)

NextRange ==
    \/ IsInRangeCall
    \/ GetActionPreflopAnySeat

SpecRange == InitRange /\ [][NextRange]_vars

\* the hand normalised: its higher rank, its lower rank, and whether it is suited
HighRank == Max2(hand[1].rank, hand[2].rank)
LowRank == Min2(hand[1].rank, hand[2].rank)
Suited == hand[1].suit = hand[2].suit

\* the rank a token's character stands for
RankOfChar(ch) ==
    CASE ch = "A" -> 14 [] ch = "K" -> 13 [] ch = "Q" -> 12 [] ch = "J" -> 11
      [] ch = "T" -> 10 [] OTHER -> DigitValue(ch)

\* what a token 'NN+', 'XYs+' or 'XYo+' stands for
PlusTokenMeaning(r) ==
    IF Len(r) = 3
    THEN HighRank = LowRank /\ HighRank >= RankOfChar(r[1])
    ELSE /\ HighRank # LowRank
         /\ Suited = (r[3] = "s")
         /\ HighRank = RankOfChar(r[1])
         /\ LowRank >= RankOfChar(r[2])

\* C3: for the hand stored in either order, _is_in_range with a single token 'XYs+'
\* ('XYo+') is true exactly when the normalised hand is suited (offsuit), its higher
\* rank is X and its lower rank is at least Y; with 'NN+' exactly when the hand is a
\* pocket pair of rank at least N.
C3_PlusTokensMatchNormalisedHand ==
    (call = "_is_in_range" /\ arg[1][Len(arg[1])] = "+")
        => (ret <=> PlusTokenMeaning(arg[1]))

IsSpan(r) == \E i \in 1..Len(r) : r[i] = "-"

\* the tokens of a range list that are no spans
RECURSIVE WithoutSpans(_)
WithoutSpans(range_list) ==
    IF range_list = <<>> THEN <<>>
    ELSE IF IsSpan(Head(range_list)) THEN WithoutSpans(Tail(range_list))
    ELSE <<Head(range_list)>> \o WithoutSpans(Tail(range_list))

\* C10: a token written as a span ('22-99', 'A2s-A7s', ...) matches no hand; facing a
\* raise the agent calls only hands that another token of the position's call range
\* matches, and folds every pocket pair from 22 to 99 that is not in the 3-bet range.
C10_SpansMatchNothing ==
    /\ (call = "_is_in_range" /\ IsSpan(arg[1])) => ret = FALSE
    /\ (call = "get_action" /\ HasRaise(rs)) =>
           LET position == GetPosition(all_player_ids, id, rs.big_blind_player_id)
               in3bet == IsInRange(hand, PreflopRanges(position, "3bet"))
           IN /\ ret.action = "CALL"
                    => IsInRange(hand, WithoutSpans(PreflopRanges(position, "call")))
              /\ (HighRank = LowRank /\ HighRank <= 9 /\ ~in3bet) => ret.action = "FOLD"

\* C10, the case: in EARLY position (big blind 1), facing a raise, a pocket pair of
\* sevens, which '22-99' would span, is folded.
C10_Witness ==
    /\ call = "get_action"
    /\ HasRaise(rs)
    /\ rs.big_blind_player_id = 1
    /\ HighRank = 7
    /\ LowRank = 7
    /\ ret.action = "FOLD"

-----------------------------------------------------------------------------
(* The position rule on its own: SpecPos draws a seat order, the agent's id and the *)
(* big blind's id, and applies _get_position                                        *)

\* the seat orders of n players: 1..n and n..1
SeatOrdersOf(n) == { [k \in 1..n |-> k], [k \in 1..n |-> n + 1 - k] }

InitPos ==
    /\ \E n \in 1..MaxSeats :
           /\ all_player_ids \in SeatOrdersOf(n)
           /\ id \in {None} \cup (1..(n + 1))
           /\ \E bb \in 1..(n + 1) :
                  rs = [NoRoundState EXCEPT !.round = "Preflop", !.big_blind_player_id = bb]
    /\ hand = <<>>
    /\ is_preflop_aggressor = FALSE
    /\ call = "init"
    /\ arg = <<>>
    /\ ret = NoReturn
    /\ raisedSinceRoundStart = FALSE
    /\ prevAggressor = FALSE

\* GTOPlayer._get_position
GetPositionCall ==
    /\ call = "init"
    /\ call' = "_get_position"
    /\ ret' = GetPosition(all_player_ids, id, rs.big_blind_player_id)
    /\ UNCHANGED <<arg, id, hand, is_preflop_aggressor, all_player_ids, rs,
                   raisedSinceRoundStart, prevAggressor>>

NextPos == GetPositionCall

SpecPos == InitPos /\ [][NextPos]_vars

\* the seat of a player who is seated, counting from 0
SeatOf(p) == (CHOOSE k \in 1..Len(all_player_ids) : all_player_ids[k] = p) - 1

Seated(p) == \E k \in 1..Len(all_player_ids) : all_player_ids[k] = p

\* the position the offset table gives for the agent and the big blind, both seated
PositionByOffset ==
    LET n == Len(all_player_ids)
        offset == (SeatOf(id) - SeatOf(rs.big_blind_player_id)) % n
    IN IF offset \in {n - 1, n - 2} THEN "BLINDS"
       ELSE IF offset \in {n - 3, n - 4} THEN "LATE"
       ELSE IF offset = n - 5 THEN "MIDDLE"
       ELSE "EARLY"

\* C8 as claimed: for every table size, the position is the one the offset table
\* gives when the agent and the big blind are seated, and LATE when one is not.
C8_PositionOriginal ==
    call = "_get_position"
        => IF Seated(id) /\ Seated(rs.big_blind_player_id)
           THEN ret = PositionByOffset
           ELSE ret = "LATE"

\* C8 as amended: at a table of four or more seats the position is the one the offset
\* table gives when the agent and the big blind are seated, and LATE when one is not;
\* at a table of three or fewer seats it is LATE.
C8_PositionFromFourSeats ==
    call = "_get_position"
        => IF Len(all_player_ids) >= 4 /\ Seated(id) /\ Seated(rs.big_blind_player_id)
           THEN ret = PositionByOffset
           ELSE ret = "LATE"

\* C8, the case: at a table of five or more the agent sits n-5 seats after the big
\* blind and is in MIDDLE position.
C8_Witness ==
    /\ call = "_get_position"
    /\ Len(all_player_ids) >= 5
    /\ Seated(id)
    /\ Seated(rs.big_blind_player_id)
    /\ ret = "MIDDLE"

====
